---- MODULE Spec2Model ----
(***************************************************************************)
(* Model of the concurrency core of autogen-backend:                       *)
(*   - RateLimiter       (rate_limiter.py, asyncio variant)                *)
(*   - SyncRateLimiter   (rate_limiter.py, thread variant)                 *)
(*   - ReaderWriterLock  (reader_writer_lock.py)                           *)
(*   - the ttl_cache'd load(api_key) of the discover managers              *)
(*   - FunctionsAndAgentsMetadata.initialize                               *)
(* Each component has its own specification (SpecRL, SpecSync, SpecRW,     *)
(* SpecCache); the variables of the other components stay at their initial *)
(* values.  Time is discrete and relative: a sleeper carries the time it    *)
(* has left, a permit the time since its guarded section was left; a Tick  *)
(* lets one time unit pass.  On the event loop a due timer runs before the *)
(* clock advances; threads and threading.Timer may be late.                *)
(***************************************************************************)
EXTENDS Integers, Sequences, FiniteSets, Bags, TLC

\* ---------------------------------------------------------------- bounds
NumCalls == 2        \* concurrent execute() calls on the RateLimiter
MaxRate == 2         \* rate is drawn from 0..MaxRate
MaxPeriod == 2       \* period is drawn from 1..MaxPeriod
MaxRetries == 2      \* retries is drawn from 0..MaxRetries
NumThreads == 2      \* threads calling SyncRateLimiter.execute
NumUsers == 3        \* threads using the ReaderWriterLock
NumCallers == 3      \* coroutines calling load(api_key)
CacheTtl == 2        \* ttl of the cache behind load, in time units
NumInitCallers == 3  \* coroutines calling FunctionsAndAgentsMetadata.initialize
MaxMisuse == 1       \* unmatched reader_release calls start while count > -MaxMisuse

Calls == 1..NumCalls
Threads == 1..NumThreads
Users == 1..NumUsers
Callers == 1..NumCallers
InitCallers == 1..NumInitCallers
ApiKeys == {"k1", "k2"}
ExcTypes == {"ValueError", "KeyError"}   \* failures the operation may raise
OpValues == {"a", "b"}                   \* values the operation may return
NoOutcome == [kind |-> "none"]
NoneValue == [kind |-> "ok", val |-> "None", inv |-> 0]
AgeCap == MaxPeriod + 1                  \* ages saturate above every period

VARIABLES
    \* RateLimiter object (rate_limiter.py:5-10)
    rate, period, retries, semaphore, tasks,
    \* one execute() call per element of Calls
    pc, attempt, ran, left, invocations, fails, lastOutcome, result,
    \* (ran[c]: time has passed since call c entered its guarded section)
    \* observer: admitted[a] = number of permits granted a time units ago
    admitted

rlVars == <<rate, period, retries, semaphore, tasks, pc, attempt, ran, left,
            invocations, fails, lastOutcome, result, admitted>>

VARIABLES
    \* SyncRateLimiter object (rate_limiter.py:36-42); self.lock is only taken
    \* inside _release_semaphore, which is one atomic step here
    sync_rate, sync_period, max_retries, sync_semaphore, timer,
    \* started timers that self.timer no longer refers to (time left of each)
    detached,
    \* one execute() call per thread
    spc, iter, sleft, sinvocations, sfails, slastOutcome, sresult,
    \* observer: sadmitted[a] = invocations of func started a time units ago
    sadmitted,
    \* observer: swaits[t] = try-acquires of thread t that found no permit
    swaits

syncVars == <<sync_rate, sync_period, max_retries, sync_semaphore, timer,
              detached, spc, iter, sleft, sinvocations, sfails, slastOutcome,
              sresult, sadmitted, swaits>>

VARIABLES
    \* ReaderWriterLock object (reader_writer_lock.py:4-7); a lock is 0 when
    \* free, else the thread that acquired it
    read_lock, write_lock, reader_count,
    \* what each thread is doing
    upc

rwVars == <<read_lock, write_lock, reader_count, upc>>

VARIABLES
    \* the TTL cache behind load(): api_key -> [val, age], NoEntry if absent
    cache,
    \* retrievers built so far (each construction returns a new object)
    built,
    \* one pull_*/push_* coroutine per caller, each calling load once
    cpc, ckey, cval,
    \* observer: constructions per key since its entry last expired
    ctorCalls

cacheVars == <<cache, built, cpc, ckey, cval, ctorCalls>>

VARIABLES
    \* FunctionsAndAgentsMetadata object (functions_and_agents_metadata.py:
    \* 237-249): client, db and rate_limiter are 0 for None, else the number
    \* of the object; collections is the number of the five *_collection
    \* attributes that are set (they are set in a fixed order); init_lock is 0
    \* when free, else the coroutine holding it
    client, db, collections, rate_limiter, init_lock,
    \* one coroutine per caller of initialize
    ipc,
    \* observers: clients and RateLimiters constructed so far
    clientsCreated, limitersCreated

metaVars == <<client, db, collections, rate_limiter, init_lock, ipc,
              clientsCreated, limitersCreated>>

vars == <<rlVars, syncVars, rwVars, cacheVars, metaVars>>

otherThanRL == <<syncVars, rwVars, cacheVars, metaVars>>
otherThanSync == <<rlVars, rwVars, cacheVars, metaVars>>
otherThanRW == <<rlVars, syncVars, cacheVars, metaVars>>
otherThanCache == <<rlVars, syncVars, rwVars, metaVars>>
otherThanMeta == <<rlVars, syncVars, rwVars, cacheVars>>

Older(a) == IF a < AgeCap THEN a + 1 ELSE AgeCap
Less(l) == IF l > 0 THEN l - 1 ELSE 0

\* ------------------------------------------------------------ RateLimiter
\* RateLimiter.__init__: Semaphore(rate), tasks = []
InitRL ==
    /\ rate \in 0..MaxRate
    /\ period \in 1..MaxPeriod
    /\ retries \in 0..MaxRetries
    /\ semaphore = rate
    /\ tasks = EmptyBag
    /\ pc = [c \in Calls |-> "idle"]
    /\ attempt = [c \in Calls |-> 0]
    /\ ran = [c \in Calls |-> FALSE]
    /\ left = [c \in Calls |-> 0]
    /\ invocations = [c \in Calls |-> 0]
    /\ fails = [c \in Calls |-> 0]
    /\ lastOutcome = [c \in Calls |-> NoOutcome]
    /\ result = [c \in Calls |-> NoOutcome]
    /\ admitted = [a \in 0..(MaxPeriod - 1) |-> 0]

\* the component is not used: its variables keep their initial values
IdleRL ==
    /\ rate = 1 /\ period = 1 /\ retries = 0
    /\ semaphore = 1 /\ tasks = EmptyBag
    /\ pc = [c \in Calls |-> "idle"]
    /\ attempt = [c \in Calls |-> 0]
    /\ ran = [c \in Calls |-> FALSE]
    /\ left = [c \in Calls |-> 0]
    /\ invocations = [c \in Calls |-> 0]
    /\ fails = [c \in Calls |-> 0]
    /\ lastOutcome = [c \in Calls |-> NoOutcome]
    /\ result = [c \in Calls |-> NoOutcome]
    /\ admitted = [a \in 0..(MaxPeriod - 1) |-> 0]

\* `for _ in range(self.retries)`: is there an iteration with index i?
LoopGuard(i) == i < retries

NotLastRetryEarly(i) == i < retries - 2

\* `if _ < self.retries - 1`: a failure at index i is followed by a sleep
NotLastRetry(i) == i < retries - 1

ReleaseSleepShort == period - 1

ReleaseSleepLong == period + 1

\* release(): `await asyncio.sleep(self.period)`, the time the task sleeps
ReleaseSleep == period

aexitTwice(ts, c) ==
    ts (+) SetToBag({[ran |-> ran[c], sinceExit |-> 0, left |-> ReleaseSleep]})
       (+) SetToBag({[ran |-> ran[c], sinceExit |-> 0, left |-> ReleaseSleep]})

\* __aexit__: self.tasks gets one release task for the permit of call c.  The
\* task remembers whether the guarded section took time and counts the time since
\* the exit; `left' is what is left of its sleep
aexit(ts, c) ==
    ts (+) SetToBag({[ran |-> ran[c], sinceExit |-> 0, left |-> ReleaseSleep]})

\* what `raise e from None` raises when the caught exception is e
Reraised(e) == e

\* what `return await task(...)` returns when the task returned v
Returned(v) == v

\* the for loop is entered at index i, or falls through: execute returns None
EnterLoop(c, i) ==
    IF LoopGuard(i)
    THEN /\ pc' = [pc EXCEPT ![c] = "acquire"]
         /\ result' = result
    ELSE /\ pc' = [pc EXCEPT ![c] = "returned"]
         /\ result' = [result EXCEPT ![c] = NoneValue]

\* execute() is called
Execute(c) ==
    /\ pc[c] = "idle"
    /\ EnterLoop(c, 0)
    /\ UNCHANGED <<rate, period, retries, semaphore, tasks, attempt, ran,
                   left, invocations, fails, lastOutcome, admitted>>

\* __aenter__: `await self.semaphore.acquire()` returns, the task is invoked
Acquire(c) ==
    /\ pc[c] = "acquire"
    /\ semaphore > 0
    /\ semaphore' = semaphore - 1
    /\ pc' = [pc EXCEPT ![c] = "running"]
    /\ ran' = [ran EXCEPT ![c] = FALSE]
    /\ invocations' = [invocations EXCEPT ![c] = @ + 1]
    /\ admitted' = [admitted EXCEPT ![0] = @ + 1]
    /\ UNCHANGED <<rate, period, retries, tasks, attempt, left, fails,
                   lastOutcome, result>>

\* the task returns v: __aexit__ schedules the release, execute returns v
TaskReturns(c, v) ==
    LET ok == [kind |-> "ok", val |-> v, inv |-> invocations[c]] IN
    /\ pc[c] = "running"
    /\ tasks' = aexit(tasks, c)
    /\ lastOutcome' = [lastOutcome EXCEPT ![c] = ok]
    /\ result' = [result EXCEPT ![c] = Returned(ok)]
    /\ pc' = [pc EXCEPT ![c] = "returned"]
    /\ ran' = [ran EXCEPT ![c] = FALSE]
    /\ UNCHANGED <<rate, period, retries, semaphore, attempt, left,
                   invocations, fails, admitted>>

\* (variant: the except clause does not sleep)
BackoffSleepNone(p) == 0

\* the except clause: `await asyncio.sleep(self.period)`
BackoffSleep(p) == p

\* the task raises e: __aexit__ schedules the release, the except clause
\* either sleeps for period or re-raises
TaskRaises(c, e) ==
    LET exc == [kind |-> "exc", type |-> e, inv |-> invocations[c]] IN
    /\ pc[c] = "running"
    /\ tasks' = aexit(tasks, c)
    /\ lastOutcome' = [lastOutcome EXCEPT ![c] = exc]
    /\ fails' = [fails EXCEPT ![c] = @ + 1]
    /\ IF NotLastRetry(attempt[c])
       THEN /\ pc' = [pc EXCEPT ![c] = "backoff"]
            /\ left' = [left EXCEPT ![c] = BackoffSleep(period)]
            /\ result' = result
       ELSE /\ pc' = [pc EXCEPT ![c] = "raised"]
            /\ left' = left
            /\ result' = [result EXCEPT ![c] = Reraised(exc)]
    /\ ran' = [ran EXCEPT ![c] = FALSE]
    /\ UNCHANGED <<rate, period, retries, semaphore, attempt,
                   invocations, admitted>>

\* `await asyncio.sleep(self.period)` in the except clause ends: next index
BackoffDone(c) ==
    /\ pc[c] = "backoff"
    /\ left[c] = 0
    /\ attempt' = [attempt EXCEPT ![c] = @ + 1]
    /\ EnterLoop(c, attempt[c] + 1)
    /\ UNCHANGED <<rate, period, retries, semaphore, tasks, ran, left,
                   invocations, fails, lastOutcome, admitted>>

\* (variant: the release task ends without releasing)
ReleasedNot(v) == v

\* release(): `self.semaphore.release()`
Released(v) == v + 1

\* (variant: the release task stays in self.tasks)
RemovedNot(ts, t) == ts

\* release(): `self.tasks.remove(asyncio.current_task())`
Removed(ts, t) == ts (-) SetToBag({t})

\* release(): the sleep of pending task t is over; it releases the semaphore
\* and removes itself from self.tasks
Release(t) ==
    /\ BagIn(t, tasks)
    /\ t.left = 0
    /\ semaphore' = Released(semaphore)
    /\ tasks' = Removed(tasks, t)
    /\ UNCHANGED <<rate, period, retries, pc, attempt, ran, left,
                   invocations, fails, lastOutcome, result, admitted>>

\* (variant: a cancelled block is left without __aexit__)
ExitRunsNever(p) == FALSE

\* (variant: __aexit__ runs although __aenter__ was cancelled)
ExitRunsWaiting(p) == p \in {"acquire", "running"}

\* `async with self`: __aexit__ runs iff __aenter__ returned, that is when the
\* call is cancelled at position p inside the block
ExitRuns(p) == p = "running"

\* (variant: `except Exception` catches CancelledError raised by the task)
AfterCancelCaught(p) == IF p = "running" THEN "backoff" ELSE "cancelled"

\* where a call cancelled at position p goes on: CancelledError derives from
\* BaseException, `except Exception` lets it through and execute ends
AfterCancel(p) == "cancelled"

\* The call is cancelled (CancelledError is not an Exception): while waiting
\* in acquire __aexit__ does not run; while the task runs __aexit__ runs;
\* during the sleep of the except clause nothing is held
Cancel(c) ==
    /\ pc[c] \in {"acquire", "running", "backoff"}
    /\ tasks' = IF ExitRuns(pc[c]) THEN aexit(tasks, c) ELSE tasks
    /\ pc' = [pc EXCEPT ![c] = AfterCancel(pc[c])]
    /\ ran' = [ran EXCEPT ![c] = FALSE]
    /\ left' = [left EXCEPT ![c] = 0]
    /\ UNCHANGED <<rate, period, retries, semaphore, attempt,
                   invocations, fails, lastOutcome, result, admitted>>

\* A timer is due: the event loop runs it before the clock advances
DueRL ==
    \/ \E t \in BagToSet(tasks) : t.left = 0
    \/ \E c \in Calls : pc[c] = "backoff" /\ left[c] = 0

\* a sleeping release task after one time unit
Sleep(t) == [t EXCEPT !.sinceExit = Older(@), !.left = Less(@)]

\* one time unit passes
TickRL ==
    /\ ~DueRL
    /\ tasks' = BagOfAll(Sleep, tasks)
    /\ ran' = [c \in Calls |-> pc[c] = "running"]
    /\ left' = [c \in Calls |-> IF pc[c] = "backoff" THEN Less(left[c]) ELSE left[c]]
    /\ admitted' = [a \in 0..(MaxPeriod - 1) |->
                      IF a = 0 THEN 0 ELSE admitted[a - 1]]
    /\ UNCHANGED <<rate, period, retries, semaphore, pc, attempt,
                   invocations, fails, lastOutcome, result>>

NextRL ==
    \/ \E c \in Calls : Execute(c) /\ UNCHANGED otherThanRL
    \/ \E c \in Calls : Acquire(c) /\ UNCHANGED otherThanRL
    \/ \E c \in Calls, v \in OpValues : TaskReturns(c, v) /\ UNCHANGED otherThanRL
    \/ \E c \in Calls, e \in ExcTypes : TaskRaises(c, e) /\ UNCHANGED otherThanRL
    \/ \E c \in Calls : BackoffDone(c) /\ UNCHANGED otherThanRL
    \/ \E t \in BagToSet(tasks) : Release(t) /\ UNCHANGED otherThanRL
    \/ \E c \in Calls : Cancel(c) /\ UNCHANGED otherThanRL
    \/ TickRL /\ UNCHANGED otherThanRL

\* -------------------------------------------------------- SyncRateLimiter
NoTimer == [kind |-> "None"]
MaxRetriesReached == [kind |-> "exc", type |-> "Exception", inv |-> 0]

\* SyncRateLimiter.__init__: Semaphore(rate), timer = None
InitSync ==
    /\ sync_rate \in 0..MaxRate
    /\ sync_period \in 1..MaxPeriod
    /\ max_retries \in 0..MaxRetries
    /\ sync_semaphore = sync_rate
    /\ timer = NoTimer
    /\ detached = EmptyBag
    /\ spc = [t \in Threads |-> "idle"]
    /\ iter = [t \in Threads |-> 0]
    /\ sleft = [t \in Threads |-> 0]
    /\ sinvocations = [t \in Threads |-> 0]
    /\ sfails = [t \in Threads |-> 0]
    /\ slastOutcome = [t \in Threads |-> NoOutcome]
    /\ sresult = [t \in Threads |-> NoOutcome]
    /\ sadmitted = [a \in 0..(MaxPeriod - 1) |-> 0]
    /\ swaits = [t \in Threads |-> 0]

\* the component is not used: its variables keep their initial values
IdleSync ==
    /\ sync_rate = 1 /\ sync_period = 1 /\ max_retries = 0
    /\ sync_semaphore = 1 /\ timer = NoTimer /\ detached = EmptyBag
    /\ spc = [t \in Threads |-> "idle"]
    /\ iter = [t \in Threads |-> 0]
    /\ sleft = [t \in Threads |-> 0]
    /\ sinvocations = [t \in Threads |-> 0]
    /\ sfails = [t \in Threads |-> 0]
    /\ slastOutcome = [t \in Threads |-> NoOutcome]
    /\ sresult = [t \in Threads |-> NoOutcome]
    /\ sadmitted = [a \in 0..(MaxPeriod - 1) |-> 0]
    /\ swaits = [t \in Threads |-> 0]

\* (variant: `while True`, the loop has no budget)
SyncLoopGuardAlways(i) == i >= 0

\* `for _ in range(self.max_retries)`: is there an iteration with index i?
SyncLoopGuard(i) == i < max_retries

\* what execute raises once the loop is over
Exhausted(t) == MaxRetriesReached

\* the value `return func(*args, **kwargs)` returns when func returned v
SyncReturned(v) == v

\* the except clause of execute: `self.semaphore.release()`
ExceptRelease(v) == v + 1

\* (variant: the timer callback releases nothing)
TimerReleaseNot(v) == v

\* _release_semaphore, run by a timer: `self.semaphore.release()`
TimerRelease(v) == v + 1

\* the loop goes on with index i, or is over and execute raises
SyncEnterLoop(t, i) ==
    IF SyncLoopGuard(i)
    THEN /\ spc' = [spc EXCEPT ![t] = "try"]
         /\ sresult' = sresult
    ELSE /\ spc' = [spc EXCEPT ![t] = "raised"]
         /\ sresult' = [sresult EXCEPT ![t] = Exhausted(t)]

\* execute() is called
SyncExecute(t) ==
    /\ spc[t] = "idle"
    /\ SyncEnterLoop(t, 0)
    /\ UNCHANGED <<sync_rate, sync_period, max_retries, sync_semaphore, timer,
                   detached, iter, sleft, sinvocations, sfails, slastOutcome,
                   sadmitted, swaits>>

\* `acquired = self.semaphore.acquire(blocking=False)`
TryAcquire(t) ==
    /\ spc[t] = "try"
    /\ IF sync_semaphore > 0
       THEN /\ sync_semaphore' = sync_semaphore - 1
            /\ spc' = [spc EXCEPT ![t] = "sr_check"]
            /\ sleft' = sleft
            /\ swaits' = swaits
       ELSE /\ sync_semaphore' = sync_semaphore
            /\ spc' = [spc EXCEPT ![t] = "wait"]
            /\ sleft' = [sleft EXCEPT ![t] = sync_period]
            /\ swaits' = [swaits EXCEPT ![t] = @ + 1]
    /\ UNCHANGED <<sync_rate, sync_period, max_retries, timer, detached, iter,
                   sinvocations, sfails, slastOutcome, sresult,
                   sadmitted>>

\* (variant: after the wait the same index is tried again)
AfterWaitSame(i) == i

\* the loop index after an iteration that waited: the for loop moves on
AfterWait(i) == i + 1

\* `threading.Event().wait(self.period)` is over: next index
WaitDone(t) ==
    /\ spc[t] = "wait"
    /\ sleft[t] = 0
    /\ iter' = [iter EXCEPT ![t] = AfterWait(@)]
    /\ SyncEnterLoop(t, AfterWait(iter[t]))
    /\ UNCHANGED <<sync_rate, sync_period, max_retries, sync_semaphore, timer,
                   detached, sleft, sinvocations, sfails, slastOutcome,
                   sadmitted, swaits>>

\* _schedule_release: `if self.timer:`
ScheduleCheck(t) ==
    /\ spc[t] = "sr_check"
    /\ spc' = [spc EXCEPT ![t] = IF timer # NoTimer THEN "sr_cancel" ELSE "sr_new"]
    /\ UNCHANGED <<sync_rate, sync_period, max_retries, sync_semaphore, timer,
                   detached, iter, sleft, sinvocations, sfails, slastOutcome,
                   sresult,
                   sadmitted, swaits>>

\* _schedule_release: `self.timer.cancel()`; a cancelled timer never fires
ScheduleCancel(t) ==
    /\ spc[t] = "sr_cancel"
    /\ timer' = [timer EXCEPT !.cancelled = TRUE]
    /\ spc' = [spc EXCEPT ![t] = "sr_new"]
    /\ UNCHANGED <<sync_rate, sync_period, max_retries, sync_semaphore,
                   detached, iter, sleft, sinvocations, sfails, slastOutcome,
                   sresult,
                   sadmitted, swaits>>

\* a timer that can still fire: started, not cancelled, not fired
Live(tm) == tm # NoTimer /\ tm.started /\ ~tm.cancelled /\ ~tm.fired

\* _schedule_release: `self.timer = threading.Timer(...)`; the timer that
\* self.timer referred to goes on running if it was started and not cancelled
ScheduleNew(t) ==
    /\ spc[t] = "sr_new"
    /\ detached' = IF Live(timer) THEN detached (+) SetToBag({timer.left})
                   ELSE detached
    /\ timer' = [kind |-> "Timer", owner |-> t, started |-> FALSE,
                 cancelled |-> FALSE, fired |-> FALSE, left |-> 0]
    /\ spc' = [spc EXCEPT ![t] = "sr_start"]
    /\ UNCHANGED <<sync_rate, sync_period, max_retries, sync_semaphore, iter,
                   sleft, sinvocations, sfails, slastOutcome, sresult,
                   sadmitted, swaits>>

\* _schedule_release: `self.timer.start()`, on whatever self.timer is now.
\* Starting a started timer raises RuntimeError inside the try block of
\* execute: the except clause releases the semaphore and the loop goes on.
ScheduleStart(t) ==
    /\ spc[t] = "sr_start"
    /\ IF timer.started
       THEN /\ sync_semaphore' = ExceptRelease(sync_semaphore)
            /\ timer' = timer
            /\ slastOutcome' = [slastOutcome EXCEPT
                   ![t] = [kind |-> "exc", type |-> "RuntimeError", inv |-> 0]]
            /\ iter' = [iter EXCEPT ![t] = @ + 1]
            /\ SyncEnterLoop(t, iter[t] + 1)
       ELSE /\ timer' = [timer EXCEPT !.started = TRUE, !.left = sync_period]
            /\ spc' = [spc EXCEPT ![t] = "func"]
            /\ UNCHANGED <<sync_semaphore, slastOutcome, iter, sresult>>
    /\ sinvocations' = [sinvocations EXCEPT ![t] = IF timer.started THEN @ ELSE @ + 1]
    /\ sadmitted' = [sadmitted EXCEPT ![0] = IF timer.started THEN @ ELSE @ + 1]
    /\ UNCHANGED <<sync_rate, sync_period, max_retries, detached, sleft, sfails, swaits>>

\* func returns v: execute returns it
FuncReturns(t, v) ==
    LET ok == [kind |-> "ok", val |-> v, inv |-> sinvocations[t]] IN
    /\ spc[t] = "func"
    /\ slastOutcome' = [slastOutcome EXCEPT ![t] = ok]
    /\ sresult' = [sresult EXCEPT ![t] = SyncReturned(ok)]
    /\ spc' = [spc EXCEPT ![t] = "returned"]
    /\ UNCHANGED <<sync_rate, sync_period, max_retries, sync_semaphore, timer,
                   detached, iter, sleft, sinvocations, sfails,
                   sadmitted, swaits>>

\* func raises e: the except clause prints, releases the semaphore, and the
\* loop goes on with the next index
FuncRaises(t, e) ==
    /\ spc[t] = "func"
    /\ slastOutcome' = [slastOutcome EXCEPT
           ![t] = [kind |-> "exc", type |-> e, inv |-> sinvocations[t]]]
    /\ sfails' = [sfails EXCEPT ![t] = @ + 1]
    /\ sync_semaphore' = ExceptRelease(sync_semaphore)
    /\ iter' = [iter EXCEPT ![t] = @ + 1]
    /\ SyncEnterLoop(t, iter[t] + 1)
    /\ UNCHANGED <<sync_rate, sync_period, max_retries, timer, detached, sleft,
                   sinvocations,
                   sadmitted, swaits>>

\* the timer self.timer refers to fires: _release_semaphore
TimerFires ==
    /\ Live(timer)
    /\ timer.left = 0
    /\ timer' = [timer EXCEPT !.fired = TRUE]
    /\ sync_semaphore' = TimerRelease(sync_semaphore)
    /\ UNCHANGED <<sync_rate, sync_period, max_retries, detached, spc, iter,
                   sleft, sinvocations, sfails, slastOutcome, sresult,
                   sadmitted, swaits>>

\* a started timer that self.timer no longer refers to fires
DetachedFires ==
    /\ BagIn(0, detached)
    /\ detached' = detached (-) SetToBag({0})
    /\ sync_semaphore' = TimerRelease(sync_semaphore)
    /\ UNCHANGED <<sync_rate, sync_period, max_retries, timer, spc, iter,
                   sleft, sinvocations, sfails, slastOutcome, sresult,
                   sadmitted, swaits>>

\* one time unit passes (threads and timers may be late: no urgency)
TickSync ==
    /\ \/ \E t \in Threads : spc[t] = "wait" /\ sleft[t] > 0
       \/ Live(timer) /\ timer.left > 0
       \/ \E l \in BagToSet(detached) : l > 0
       \/ \E a \in 0..(MaxPeriod - 1) : sadmitted[a] > 0
    /\ sleft' = [t \in Threads |-> Less(sleft[t])]
    /\ timer' = IF Live(timer) THEN [timer EXCEPT !.left = Less(@)] ELSE timer
    /\ detached' = BagOfAll(Less, detached)
    /\ sadmitted' = [a \in 0..(MaxPeriod - 1) |->
                         IF a = 0 THEN 0 ELSE sadmitted[a - 1]]
    /\ UNCHANGED <<sync_rate, sync_period, max_retries, sync_semaphore, spc,
                   iter, sinvocations, sfails, slastOutcome, sresult, swaits>>

NextSync ==
    \/ \E t \in Threads : SyncExecute(t) /\ UNCHANGED otherThanSync
    \/ \E t \in Threads : TryAcquire(t) /\ UNCHANGED otherThanSync
    \/ \E t \in Threads : WaitDone(t) /\ UNCHANGED otherThanSync
    \/ \E t \in Threads : ScheduleCheck(t) /\ UNCHANGED otherThanSync
    \/ \E t \in Threads : ScheduleCancel(t) /\ UNCHANGED otherThanSync
    \/ \E t \in Threads : ScheduleNew(t) /\ UNCHANGED otherThanSync
    \/ \E t \in Threads : ScheduleStart(t) /\ UNCHANGED otherThanSync
    \/ \E t \in Threads, v \in OpValues : FuncReturns(t, v) /\ UNCHANGED otherThanSync
    \/ \E t \in Threads, e \in ExcTypes : FuncRaises(t, e) /\ UNCHANGED otherThanSync
    \/ TimerFires /\ UNCHANGED otherThanSync
    \/ DetachedFires /\ UNCHANGED otherThanSync
    \/ TickSync /\ UNCHANGED otherThanSync

\* ------------------------------------------------------- ReaderWriterLock
\* ReaderWriterLock.__init__
InitRW ==
    /\ read_lock = 0
    /\ write_lock = 0
    /\ reader_count = 0
    /\ upc = [u \in Users |-> "idle"]

FirstInAtTwo(n) == n = 2

\* (variant: no reader takes the write lock)
FirstInNever(n) == FALSE

\* (variant: every reader takes the write lock)
FirstInEvery(n) == n >= 1

\* reader_acquire: `if self._reader_count == 1`, the first reader in
FirstIn(n) == n = 1

\* (variant: the write lock is given back when two readers are left)
LastOutAtTwo(n) == n = 2

\* (variant: the last reader keeps the write lock)
LastOutNever(n) == FALSE

\* (variant: the write lock is given back when one reader is left)
LastOutAtOne(n) == n = 1

\* reader_release: `if self._reader_count == 0`, the last reader out
LastOut(n) == n = 0

\* a thread calls reader_acquire or writer_acquire
Call(u, op) ==
    /\ upc[u] = "idle"
    /\ upc' = [upc EXCEPT ![u] = op]
    /\ UNCHANGED <<read_lock, write_lock, reader_count>>

\* reader_acquire / reader_release: `with self._read_lock:` is entered
LockRead(u) ==
    /\ upc[u] \in {"reader_acquire", "reader_release"}
    /\ read_lock = 0
    /\ read_lock' = u
    /\ upc' = [upc EXCEPT ![u] = IF upc[u] = "reader_acquire" THEN "ra_inc" ELSE "rr_dec"]
    /\ UNCHANGED <<write_lock, reader_count>>

\* reader_acquire: `self._reader_count += 1`
ReaderIncrement(u) ==
    /\ upc[u] = "ra_inc"
    /\ reader_count' = reader_count + 1
    /\ upc' = [upc EXCEPT ![u] = "ra_first"]
    /\ UNCHANGED <<read_lock, write_lock>>

\* reader_acquire: the first reader acquires the write lock (and blocks on it
\* while holding the read lock), then the with block is left
ReaderEnter(u) ==
    /\ upc[u] = "ra_first"
    /\ IF FirstIn(reader_count)
       THEN write_lock = 0 /\ write_lock' = u
       ELSE write_lock' = write_lock
    /\ read_lock' = 0
    /\ upc' = [upc EXCEPT ![u] = "reading"]
    /\ UNCHANGED reader_count

\* the reader leaves its read section: reader_release is called
ReaderDone(u) ==
    /\ upc[u] = "reading"
    /\ upc' = [upc EXCEPT ![u] = "reader_release"]
    /\ UNCHANGED <<read_lock, write_lock, reader_count>>

\* reader_release: `self._reader_count -= 1`
ReaderDecrement(u) ==
    /\ upc[u] = "rr_dec"
    /\ reader_count' = reader_count - 1
    /\ upc' = [upc EXCEPT ![u] = "rr_last"]
    /\ UNCHANGED <<read_lock, write_lock>>

\* reader_release: the last reader releases the write lock, then the with
\* block is left
ReaderLeave(u) ==
    /\ upc[u] = "rr_last"
    /\ write_lock' = IF LastOut(reader_count) THEN 0 ELSE write_lock
    /\ read_lock' = 0
    /\ upc' = [upc EXCEPT ![u] = "idle"]
    /\ UNCHANGED reader_count

\* writer_acquire: `self._write_lock.acquire()` returns
WriterAcquire(u) ==
    /\ upc[u] = "writer_acquire"
    /\ write_lock = 0
    /\ write_lock' = u
    /\ upc' = [upc EXCEPT ![u] = "writing"]
    /\ UNCHANGED <<read_lock, reader_count>>

\* writer_release: `self._write_lock.release()`
WriterRelease(u) ==
    /\ upc[u] = "writing"
    /\ write_lock' = 0
    /\ upc' = [upc EXCEPT ![u] = "idle"]
    /\ UNCHANGED <<read_lock, reader_count>>

\* a thread that holds nothing calls reader_release: the method runs as for
\* a reader (it checks nothing)
MisuseReaderRelease(u) ==
    /\ upc[u] = "idle"
    /\ reader_count > -MaxMisuse
    /\ upc' = [upc EXCEPT ![u] = "reader_release"]
    /\ UNCHANGED <<read_lock, write_lock, reader_count>>

\* a thread that holds nothing calls writer_release: threading.Lock.release()
\* raises RuntimeError on an unlocked lock, and unlocks a lock that any other
\* thread holds (a Lock has no owner)
MisuseWriterRelease(u) ==
    /\ upc[u] = "idle"
    /\ IF write_lock = 0
       THEN /\ upc' = [upc EXCEPT ![u] = "error"]
            /\ write_lock' = write_lock
       ELSE /\ upc' = upc
            /\ write_lock' = 0
    /\ UNCHANGED <<read_lock, reader_count>>

NextRW ==
    \/ \E u \in Users, op \in {"reader_acquire", "writer_acquire"} :
           Call(u, op) /\ UNCHANGED otherThanRW
    \/ \E u \in Users : LockRead(u) /\ UNCHANGED otherThanRW
    \/ \E u \in Users : ReaderIncrement(u) /\ UNCHANGED otherThanRW
    \/ \E u \in Users : ReaderEnter(u) /\ UNCHANGED otherThanRW
    \/ \E u \in Users : ReaderDone(u) /\ UNCHANGED otherThanRW
    \/ \E u \in Users : ReaderDecrement(u) /\ UNCHANGED otherThanRW
    \/ \E u \in Users : ReaderLeave(u) /\ UNCHANGED otherThanRW
    \/ \E u \in Users : WriterAcquire(u) /\ UNCHANGED otherThanRW
    \/ \E u \in Users : WriterRelease(u) /\ UNCHANGED otherThanRW

\* the users of the lock may also release what they do not hold
NextRWMisuse ==
    \/ NextRW
    \/ \E u \in Users : MisuseReaderRelease(u) /\ UNCHANGED otherThanRW
    \/ \E u \in Users : MisuseWriterRelease(u) /\ UNCHANGED otherThanRW

\* ------------------------------------------------- load(api_key) and cache
\* @cachetools.func.ttl_cache(maxsize=16384, ttl=36000) around load.  The key
\* set stays far below maxsize, so no entry is evicted for space; ttl is
\* scaled to CacheTtl time units.  create_new_*_retriever returns a new
\* retriever on every call.
NoEntry == [kind |-> "absent"]
NoValue == 0

\* nothing is cached, no retriever has been built
InitCache ==
    /\ cache = [k \in ApiKeys |-> NoEntry]
    /\ built = 0
    /\ cpc = [c \in Callers |-> "idle"]
    /\ ckey = [c \in Callers |-> "k1"]
    /\ cval = [c \in Callers |-> NoValue]
    /\ ctorCalls = [k \in ApiKeys |-> 0]

HoldsLoopNotInCtor(p) == p \in {"lookup", "store"}

\* load is a plain `def` called without await from the async pull_*/push_*
\* methods: from the call to the return the coroutine keeps the event loop
HoldsLoop(p) == p \in {"lookup", "ctor", "store"}

LoopFree(c) == \A d \in Callers \ {c} : ~HoldsLoop(cpc[d])

\* (variant: entries never expire)
FreshForEver(e) == e # NoEntry

\* ttl_cache: an entry is served while it is younger than ttl
Fresh(e) == e # NoEntry /\ e.age < CacheTtl

\* a coroutine reaches `memory = self.load(api_key)`
CallLoad(c, k) ==
    /\ cpc[c] = "idle"
    /\ LoopFree(c)
    /\ cpc' = [cpc EXCEPT ![c] = "lookup"]
    /\ ckey' = [ckey EXCEPT ![c] = k]
    /\ UNCHANGED <<cache, built, cval, ctorCalls>>

\* the ttl_cache wrapper looks the key up: a hit returns the cached value
Lookup(c) ==
    /\ cpc[c] = "lookup"
    /\ LoopFree(c)
    /\ IF Fresh(cache[ckey[c]])
       THEN /\ cval' = [cval EXCEPT ![c] = cache[ckey[c]].val]
            /\ cpc' = [cpc EXCEPT ![c] = "done"]
       ELSE /\ cval' = cval
            /\ cpc' = [cpc EXCEPT ![c] = "ctor"]
    /\ UNCHANGED <<cache, built, ckey, ctorCalls>>

\* the body of load: create_new_*_retriever(api_key) builds a new retriever
Construct(c) ==
    /\ cpc[c] = "ctor"
    /\ LoopFree(c)
    /\ built' = built + 1
    /\ cval' = [cval EXCEPT ![c] = built + 1]
    /\ ctorCalls' = [ctorCalls EXCEPT ![ckey[c]] = @ + 1]
    /\ cpc' = [cpc EXCEPT ![c] = "store"]
    /\ UNCHANGED <<cache, ckey>>

\* the ttl_cache wrapper stores the value with a fresh timestamp unless the
\* key has a fresh entry by now (setdefault), and returns the stored value
Store(c) ==
    /\ cpc[c] = "store"
    /\ LoopFree(c)
    /\ IF Fresh(cache[ckey[c]])
       THEN /\ cache' = cache
            /\ cval' = [cval EXCEPT ![c] = cache[ckey[c]].val]
       ELSE /\ cache' = [cache EXCEPT ![ckey[c]] =
                            [kind |-> "entry", val |-> cval[c], age |-> 0]]
            /\ cval' = cval
    /\ cpc' = [cpc EXCEPT ![c] = "done"]
    /\ UNCHANGED <<built, ckey, ctorCalls>>

Expires(k) == cache[k] # NoEntry /\ cache[k].age + 1 >= CacheTtl

\* one time unit passes: entries age; an entry of age ttl is expired.  The
\* observers forget what belongs to an expired entry.
TickCache ==
    /\ \E k \in ApiKeys : Fresh(cache[k])
    /\ cache' = [k \in ApiKeys |->
                    IF cache[k] = NoEntry THEN NoEntry
                    ELSE IF Expires(k) THEN [cache[k] EXCEPT !.age = CacheTtl]
                    ELSE [cache[k] EXCEPT !.age = @ + 1]]
    /\ ctorCalls' = [k \in ApiKeys |-> IF Expires(k) THEN 0 ELSE ctorCalls[k]]
    /\ cval' = [c \in Callers |->
                   IF cpc[c] = "done" /\ Expires(ckey[c]) THEN NoValue ELSE cval[c]]
    /\ UNCHANGED <<built, cpc, ckey>>

NextCache ==
    \/ \E c \in Callers, k \in ApiKeys : CallLoad(c, k) /\ UNCHANGED otherThanCache
    \/ \E c \in Callers : Lookup(c) /\ UNCHANGED otherThanCache
    \/ \E c \in Callers : Construct(c) /\ UNCHANGED otherThanCache
    \/ \E c \in Callers : Store(c) /\ UNCHANGED otherThanCache
    \/ TickCache /\ UNCHANGED otherThanCache

\* ------------------------------------ FunctionsAndAgentsMetadata.initialize
NumCollections == 5

\* FunctionsAndAgentsMetadata.__init__: everything is None, the lock is free
InitMeta ==
    /\ client = 0
    /\ db = 0
    /\ collections = 0
    /\ rate_limiter = 0
    /\ init_lock = 0
    /\ ipc = [t \in InitCallers |-> "idle"]
    /\ clientsCreated = 0
    /\ limitersCreated = 0

\* (variant: initialize does not look at self.client)
AlreadyInitializedNot(c) == FALSE

\* `if self.client is not None: return`
AlreadyInitialized(c) == c # 0

\* a coroutine calls initialize and reaches `async with self.init_lock`
CallInitialize(t) ==
    /\ ipc[t] \in {"idle", "returned"}
    /\ ipc' = [ipc EXCEPT ![t] = "lock"]
    /\ UNCHANGED <<client, db, collections, rate_limiter, init_lock,
                   clientsCreated, limitersCreated>>

\* the lock is acquired; up to the first await the body runs in one piece:
\* either it returns because self.client is set, or it creates the client
\* and awaits the ping
EnterBody(t) ==
    /\ ipc[t] = "lock"
    /\ init_lock = 0
    /\ IF AlreadyInitialized(client)
       THEN /\ ipc' = [ipc EXCEPT ![t] = "returned"]
            /\ UNCHANGED <<client, init_lock, clientsCreated>>
       ELSE /\ clientsCreated' = clientsCreated + 1
            /\ client' = clientsCreated + 1
            /\ init_lock' = t
            /\ ipc' = [ipc EXCEPT ![t] = "ping"]
    /\ UNCHANGED <<db, collections, rate_limiter, limitersCreated>>

\* the ping succeeds: db and funcs_collection are set, create_index is awaited
PingOk(t) ==
    /\ ipc[t] = "ping"
    /\ db' = client
    /\ collections' = 1
    /\ ipc' = [ipc EXCEPT ![t] = "create_index"]
    /\ UNCHANGED <<client, rate_limiter, init_lock, clientsCreated,
                   limitersCreated>>

\* create_index succeeds: the next collection is set and its create_index
\* awaited, or, after the last one, the RateLimiter is built, the lock is
\* released and initialize returns
IndexOk(t) ==
    /\ ipc[t] = "create_index"
    /\ IF collections < NumCollections
       THEN /\ collections' = collections + 1
            /\ UNCHANGED <<rate_limiter, limitersCreated, init_lock, ipc>>
       ELSE /\ limitersCreated' = limitersCreated + 1
            /\ rate_limiter' = limitersCreated + 1
            /\ init_lock' = 0
            /\ ipc' = [ipc EXCEPT ![t] = "returned"]
            /\ collections' = collections
    /\ UNCHANGED <<client, db, clientsCreated>>

\* the ping or a create_index raises: `except Exception` logs a warning, the
\* lock is released and initialize returns
StepFails(t) ==
    /\ ipc[t] \in {"ping", "create_index"}
    /\ init_lock' = 0
    /\ ipc' = [ipc EXCEPT ![t] = "returned"]
    /\ UNCHANGED <<client, db, collections, rate_limiter, clientsCreated,
                   limitersCreated>>

\* the coroutine is cancelled while it waits for the lock or for an await of
\* the body: CancelledError leaves initialize, the lock is released
CancelInitialize(t) ==
    /\ ipc[t] \in {"lock", "ping", "create_index"}
    /\ init_lock' = IF init_lock = t THEN 0 ELSE init_lock
    /\ ipc' = [ipc EXCEPT ![t] = "cancelled"]
    /\ UNCHANGED <<client, db, collections, rate_limiter, clientsCreated,
                   limitersCreated>>

NextMeta ==
    \/ \E t \in InitCallers : CallInitialize(t) /\ UNCHANGED otherThanMeta
    \/ \E t \in InitCallers : EnterBody(t) /\ UNCHANGED otherThanMeta
    \/ \E t \in InitCallers : PingOk(t) /\ UNCHANGED otherThanMeta
    \/ \E t \in InitCallers : IndexOk(t) /\ UNCHANGED otherThanMeta
    \/ \E t \in InitCallers : StepFails(t) /\ UNCHANGED otherThanMeta
    \/ \E t \in InitCallers : CancelInitialize(t) /\ UNCHANGED otherThanMeta

\* --------------------------------------------------------- specifications
Init == InitRL /\ IdleSync /\ InitRW /\ InitCache /\ InitMeta

Next == NextRL

Spec == Init /\ [][Next]_vars

SpecRL == Spec

\* the event loop runs every coroutine that is ready, operations terminate,
\* sleeps end and time passes; whether a call is started or cancelled is up
\* to the callers
FairRL ==
    /\ \A c \in Calls :
           /\ WF_vars(Acquire(c) /\ UNCHANGED otherThanRL)
           /\ WF_vars((\/ \E v \in OpValues : TaskReturns(c, v)
                       \/ \E e \in ExcTypes : TaskRaises(c, e))
                      /\ UNCHANGED otherThanRL)
           /\ WF_vars(BackoffDone(c) /\ UNCHANGED otherThanRL)
    /\ WF_vars((\E t \in BagToSet(tasks) : Release(t)) /\ UNCHANGED otherThanRL)
    /\ WF_vars(TickRL /\ UNCHANGED otherThanRL)

SpecRLFair == Init /\ [][Next]_vars /\ FairRL

InitSyncOnly == IdleRL /\ InitSync /\ InitRW /\ InitCache /\ InitMeta

SpecSync == InitSyncOnly /\ [][NextSync]_vars

\* every thread that is inside execute goes on running, func terminates,
\* started timers fire and time passes
FairSync ==
    /\ \A t \in Threads :
           /\ WF_vars(TryAcquire(t) /\ UNCHANGED otherThanSync)
           /\ WF_vars(WaitDone(t) /\ UNCHANGED otherThanSync)
           /\ WF_vars(ScheduleCheck(t) /\ UNCHANGED otherThanSync)
           /\ WF_vars(ScheduleCancel(t) /\ UNCHANGED otherThanSync)
           /\ WF_vars(ScheduleNew(t) /\ UNCHANGED otherThanSync)
           /\ WF_vars(ScheduleStart(t) /\ UNCHANGED otherThanSync)
           /\ WF_vars((\/ \E v \in OpValues : FuncReturns(t, v)
                       \/ \E e \in ExcTypes : FuncRaises(t, e))
                      /\ UNCHANGED otherThanSync)
    /\ WF_vars(TimerFires /\ UNCHANGED otherThanSync)
    /\ WF_vars(DetachedFires /\ UNCHANGED otherThanSync)
    /\ WF_vars(TickSync /\ UNCHANGED otherThanSync)

SpecSyncFair == InitSyncOnly /\ [][NextSync]_vars /\ FairSync

InitRWOnly == IdleRL /\ IdleSync /\ InitRW /\ InitCache /\ InitMeta

SpecRW == InitRWOnly /\ [][NextRW]_vars

\* fair scheduling of the threads using the lock: a thread that can take a
\* step of reader_acquire, reader_release or writer_release takes it, every
\* read and write section ends, and a thread waiting for a lock that is free
\* again and again gets it (strong fairness on the acquires); whether a
\* thread calls the lock again is up to the thread
FairRW ==
    \A u \in Users :
        /\ SF_vars(LockRead(u) /\ UNCHANGED otherThanRW)
        /\ WF_vars(ReaderIncrement(u) /\ UNCHANGED otherThanRW)
        /\ SF_vars(ReaderEnter(u) /\ UNCHANGED otherThanRW)
        /\ WF_vars(ReaderDone(u) /\ UNCHANGED otherThanRW)
        /\ WF_vars(ReaderDecrement(u) /\ UNCHANGED otherThanRW)
        /\ WF_vars(ReaderLeave(u) /\ UNCHANGED otherThanRW)
        /\ SF_vars(WriterAcquire(u) /\ UNCHANGED otherThanRW)
        /\ WF_vars(WriterRelease(u) /\ UNCHANGED otherThanRW)

SpecRWFair == InitRWOnly /\ [][NextRW]_vars /\ FairRW

SpecRWMisuse == InitRWOnly /\ [][NextRWMisuse]_vars

SpecCache == InitRWOnly /\ [][NextCache]_vars

SpecMeta == InitRWOnly /\ [][NextMeta]_vars

\* ------------------------------------------------- claims on RateLimiter
Running == {c \in Calls : pc[c] = "running"}

RecentAdmits == {a \in 0..(MaxPeriod - 1) : a < period}

RECURSIVE SumAdmitted(_)
SumAdmitted(A) ==
    IF A = {} THEN 0
    ELSE LET a == CHOOSE x \in A : TRUE IN admitted[a] + SumAdmitted(A \ {a})

\* C1: in every interleaving of execute calls (succeeding, failing, retried,
\* cancelled) the number of permits held and not yet released, rate minus
\* the semaphore's value, is between 0 and rate.
C1_Thm == semaphore >= 0 /\ semaphore <= rate /\ (rate - semaphore) \in 0..rate

\* every permit is out while a call has failed and is being retried
C1_Witness ==
    /\ rate = 2
    /\ semaphore = 0
    /\ \E c \in Calls : fails[c] > 0 /\ pc[c] = "running"

\* C3 (as claimed): when execute raises, the operation has been invoked
\* retries + 1 times and the failure raised is that of the last invocation.
C3_Claim ==
    \A c \in Calls :
        pc[c] = "raised" =>
            /\ invocations[c] = retries + 1
            /\ result[c] = lastOutcome[c]

\* C4: an operation that fails k < retries times and then succeeds is invoked
\* exactly k + 1 times and execute returns that success: a success ends the
\* call at once with the value of that invocation, and execute does not give
\* up (raise, or fall out of the loop) after fewer than retries failures.
C4_Thm ==
    \A c \in Calls :
        /\ lastOutcome[c].kind = "ok" =>
               /\ pc[c] = "returned"
               /\ result[c] = lastOutcome[c]
               /\ result[c].inv = invocations[c]
               /\ invocations[c] = fails[c] + 1
        /\ pc[c] = "raised" => fails[c] >= retries
        /\ (pc[c] = "returned" /\ lastOutcome[c].kind # "ok") => fails[c] >= retries

\* one failure (k = 1 < retries = 2), then a success on the second invocation
C4_Witness ==
    \E c \in Calls :
        /\ retries = 2
        /\ pc[c] = "returned"
        /\ fails[c] = 1
        /\ invocations[c] = 2
        /\ result[c].kind = "ok"

\* C5: a permit acquired at time t cannot be acquired again before t +
\* period: every permit granted less than period ago is still outstanding,
\* so at most rate operations start in any window of length period.
C5_Thm ==
    /\ SumAdmitted(RecentAdmits) <= rate - semaphore
    /\ SumAdmitted(RecentAdmits) <= rate

\* rate calls were admitted at this instant and one more call is waiting
C5_Witness ==
    /\ rate >= 1
    /\ admitted[0] = rate
    /\ semaphore = 0
    /\ \E c \in Calls : pc[c] = "acquire"

\* C9 (as claimed): execute returns normally only if an invocation of the
\* operation returned normally, and then it returns that invocation's value.
C9_Claim ==
    \A c \in Calls :
        pc[c] = "returned" =>
            /\ lastOutcome[c].kind = "ok"
            /\ result[c] = lastOutcome[c]

C16_Thm ==
    /\ [][\A c \in Calls :
             (pc[c] = "acquire" /\ pc'[c] = "cancelled") =>
                 (semaphore' = semaphore /\ tasks' = tasks)]_vars
    /\ [](rate - semaphore = Cardinality(Running) + BagCardinality(tasks))

\* a call was cancelled before it invoked anything while the only permit was
\* held by the other call, which is still running
C16_Witness ==
    \E c \in Calls :
        /\ rate = 1
        /\ pc[c] = "cancelled"
        /\ invocations[c] = 0
        /\ semaphore = 0
        /\ Running # {}
        /\ tasks = EmptyBag

InFlight == {c \in Calls : pc[c] \in {"acquire", "running", "backoff"}}

\* C17: with rate > 0 and operations that terminate, a call waiting for a
\* permit is eventually admitted (or cancelled by its caller), and every call
\* that has started eventually returns, raises or is cancelled.
C17_Thm ==
    \A c \in Calls :
        /\ (rate > 0 /\ pc[c] = "acquire") ~> (pc[c] \in {"running", "cancelled"})
        /\ (rate > 0 /\ c \in InFlight) ~> (pc[c] \in {"returned", "raised", "cancelled"})

\* with rate 1 a call that failed once runs again: its retry got the permit
\* of its own failed attempt back
C17_Witness ==
    \E c \in Calls :
        /\ rate = 1
        /\ pc[c] = "running"
        /\ fails[c] = 1
        /\ attempt[c] = 1

\* C18 (as claimed): a pool of rate 0 never grants a permit and execute on it
\* ends with an error instead of hanging (a call that its caller cancels
\* meanwhile is over too).
C18_Claim ==
    \A c \in Calls :
        /\ [](rate = 0 => pc[c] # "running")
        /\ (rate = 0 /\ pc[c] = "acquire") ~> (pc[c] \in {"raised", "cancelled"})

\* C24: after a failed attempt that is not the last of the loop the call
\* sleeps period time units, counted by the clock alone, before it goes on to
\* acquire for the next attempt; after the last failed attempt it raises in
\* the same step, without waiting.
C24_Thm ==
    /\ [][\A c \in Calls :
             /\ (pc[c] = "running" /\ fails'[c] = fails[c] + 1) =>
                    IF attempt[c] < retries - 1
                    THEN pc'[c] = "backoff" /\ left'[c] = period
                    ELSE pc'[c] = "raised"
             /\ (pc[c] = "backoff" /\ pc'[c] = "backoff" /\ left'[c] # left[c]) =>
                    /\ left'[c] = left[c] - 1
                    /\ admitted'[0] = 0
             /\ (pc[c] = "backoff" /\ pc'[c] \notin {"backoff", "cancelled"}) =>
                    /\ left[c] = 0
                    /\ pc'[c] = "acquire"
                    /\ attempt'[c] = attempt[c] + 1]_vars
    /\ [](\A c \in Calls : pc[c] = "backoff" => left[c] \in 0..period)

\* a call has slept the whole (longest) period after a failure and is about
\* to go on with its next attempt
C24_Witness ==
    \E c \in Calls :
        /\ period = MaxPeriod
        /\ pc[c] = "backoff"
        /\ left[c] = 0
        /\ fails[c] = 1

\* C26: every attempt takes exactly one permit in the step that invokes the
\* operation, and the step that ends the attempt (return, raise, cancel)
\* schedules exactly one release with a delay of period; nothing else takes
\* permits or schedules releases, and once no call is in progress every
\* permit comes back.
C26_Thm ==
    /\ [][\A c \in Calls :
             /\ invocations'[c] # invocations[c] =>
                    /\ invocations'[c] = invocations[c] + 1
                    /\ pc[c] = "acquire" /\ pc'[c] = "running"
                    /\ semaphore' = semaphore - 1
                    /\ tasks' = tasks
             /\ (pc[c] = "running" /\ pc'[c] # "running") =>
                    /\ pc'[c] \in {"returned", "raised", "backoff", "cancelled"}
                    /\ BagCardinality(tasks') = BagCardinality(tasks) + 1
                    /\ \E t \in BagToSet(tasks') :
                           /\ t.left = period /\ t.sinceExit = 0
                           /\ tasks' = tasks (+) SetToBag({t})
                    /\ semaphore' = semaphore
             /\ (pc[c] # "running" /\ pc'[c] # pc[c] /\ pc'[c] # "running") =>
                    /\ tasks' = tasks
                    /\ semaphore' = semaphore]_vars
    /\ (InFlight = {}) ~> (InFlight # {} \/ (tasks = EmptyBag /\ semaphore = rate))

\* a call was cancelled while its operation ran: it took one permit, for
\* which one release is pending
C26_Witness ==
    \E c \in Calls :
        /\ pc[c] = "cancelled"
        /\ invocations[c] = 1
        /\ BagCardinality(tasks) = 1
        /\ semaphore = rate - 1
        /\ \A d \in Calls \ {c} : pc[d] = "idle"

\* C29: in every state rate minus the semaphore's value is the number of
\* calls inside the guarded section plus the number of pending release
\* tasks; self.tasks grows by one task when a guarded section is left and
\* shrinks only when a task whose sleep is over releases, which takes exactly
\* that task out and gives one permit back.
C29_Thm ==
    /\ [](rate - semaphore = Cardinality(Running) + BagCardinality(tasks))
    /\ [][(semaphore' > semaphore =>
               /\ semaphore' = semaphore + 1
               /\ \E t \in BagToSet(tasks) :
                      t.left = 0 /\ tasks' (+) SetToBag({t}) = tasks)
           /\ (BagCardinality(tasks') < BagCardinality(tasks) =>
                  /\ BagCardinality(tasks') = BagCardinality(tasks) - 1
                  /\ semaphore' = semaphore + 1)
           /\ (BagCardinality(tasks') > BagCardinality(tasks) =>
                  /\ BagCardinality(tasks') = BagCardinality(tasks) + 1
                  /\ Cardinality(Running') = Cardinality(Running) - 1)]_vars

\* both permits are out: one call is inside its guarded section, the other
\* has left it and its release task is pending
C29_Witness ==
    /\ rate = 2
    /\ semaphore = 0
    /\ Cardinality(Running) = 1
    /\ BagCardinality(tasks) = 1

\* C30: a guarded section that is left without an outcome of the operation
\* was cancelled, and a wait that ends early was cancelled: the call is then
\* over for good (no further invocation, no result), and the permit held
\* when the operation was cancelled is released by one task, period after
\* the section was left.
C30_Thm ==
    /\ [][\A c \in Calls :
             /\ (pc[c] = "running" /\ pc'[c] # "running"
                    /\ lastOutcome'[c] = lastOutcome[c]) =>
                    /\ pc'[c] = "cancelled"
                    /\ semaphore' = semaphore
                    /\ \E t \in BagToSet(tasks') :
                           /\ t.left = period /\ t.sinceExit = 0
                           /\ tasks' = tasks (+) SetToBag({t})
             /\ (pc[c] = "backoff" /\ pc'[c] # "backoff" /\ left[c] > 0) =>
                    /\ pc'[c] = "cancelled"
                    /\ tasks' = tasks /\ semaphore' = semaphore
             /\ pc[c] = "cancelled" =>
                    /\ pc'[c] = "cancelled"
                    /\ invocations'[c] = invocations[c]
                    /\ result'[c] = NoOutcome]_vars
    /\ [](\A t \in BagToSet(tasks) : t.sinceExit + t.left = period)

\* a call was cancelled during the wait after its first failure: it has
\* invoked the operation once although its budget is 2
C30_Witness ==
    \E c \in Calls :
        /\ retries = 2
        /\ pc[c] = "cancelled"
        /\ attempt[c] = 0
        /\ fails[c] = 1
        /\ invocations[c] = 1

\* --------------------------------------------- claims on SyncRateLimiter
\* C2 (as claimed): in every interleaving of execute calls and timer
\* callbacks the semaphore's value stays within 0..rate.
C2_Claim == sync_semaphore \in 0..sync_rate

\* C7 (as claimed): when func raised on every attempt, the failure execute
\* raises once the budget is used up is the last exception func raised.
C7_Claim ==
    \A t \in Threads :
        (spc[t] = "raised" /\ max_retries > 0 /\ sfails[t] = max_retries) =>
            sresult[t] = slastOutcome[t]

\* C9, SyncRateLimiter half: execute returns normally only with the value of
\* an invocation of func that returned normally.
C9_SyncHalf ==
    \A t \in Threads :
        spc[t] = "returned" =>
            /\ slastOutcome[t].kind = "ok"
            /\ sresult[t] = slastOutcome[t]

\* every execute call is over, no timer can fire any more
Quiescent ==
    /\ \A t \in Threads : spc[t] \in {"idle", "returned", "raised"}
    /\ ~Live(timer)
    /\ detached = EmptyBag

\* C11 (as claimed): every successful acquire is paired with exactly one
\* release, so once all execute calls are over and all timers have fired the
\* semaphore's value is rate again.
C11_Claim == Quiescent => sync_semaphore = sync_rate

SyncRecentAdmits == {a \in 0..(MaxPeriod - 1) : a < sync_period}

RECURSIVE SumSyncAdmitted(_)
SumSyncAdmitted(A) ==
    IF A = {} THEN 0
    ELSE LET a == CHOOSE x \in A : TRUE IN sadmitted[a] + SumSyncAdmitted(A \ {a})

\* C12 (as claimed): no more than rate invocations of func, retries of a
\* failing func included, start within any window of length period.
C12_Claim == SumSyncAdmitted(SyncRecentAdmits) <= sync_rate

\* C13 (as claimed): the failure execute raises when it never acquired a
\* permit differs from the failure it raises when func failed on every
\* attempt.
C13_Claim ==
    \A t \in Threads, u \in Threads :
        (/\ spc[t] = "raised" /\ max_retries > 0 /\ sinvocations[t] = 0
            /\ slastOutcome[t] = NoOutcome
         /\ spc[u] = "raised" /\ sfails[u] = max_retries) =>
            sresult[t] # sresult[u]

\* threads inside the loop of execute
InLoop == {t \in Threads : spc[t] \notin {"idle", "returned", "raised"}}

\* C14: execute terminates when func terminates: whatever the semaphore does
\* (a pool of rate 0 never has a permit) the loop runs at most max_retries
\* iterations, and a call that has started ends by returning or raising.
C14_Thm ==
    /\ [](\A t \in Threads :
             /\ iter[t] <= max_retries
             /\ t \in InLoop => iter[t] < max_retries)
    /\ \A t \in Threads : (t \in InLoop) ~> (spc[t] \in {"returned", "raised"})

\* with no permit to be had (rate 0) a call has used up its whole budget
\* waiting and has raised
C14_Witness ==
    \E t \in Threads :
        /\ sync_rate = 0
        /\ max_retries = MaxRetries
        /\ iter[t] = max_retries
        /\ spc[t] = "raised"

\* C25 (as claimed): after func raises on an attempt that is not the last
\* one, execute waits period time units before it starts the next attempt.
C25_Claim ==
    [][\A t \in Threads :
          (spc[t] = "func" /\ sfails'[t] = sfails[t] + 1
              /\ iter[t] < max_retries - 1) =>
              (spc'[t] = "wait" /\ sleft'[t] = sync_period)]_vars

\* C27 (as claimed): however the steps of two _schedule_release calls
\* interleave, each call starts the timer it created itself, no timer is
\* started twice, and the caller goes on to invoke func.
C27_Claim ==
    [][\A t \in Threads :
          (spc[t] = "sr_start" /\ spc'[t] # "sr_start") =>
              /\ timer.owner = t
              /\ ~timer.started
              /\ spc'[t] = "func"]_vars

\* C28: an iteration whose try-acquire fails invokes nothing, touches no
\* timer, waits period and uses up one index of the loop like a failure of
\* func does: per call, invocations plus failed try-acquires never exceed
\* max_retries, and with max_retries = 0 execute raises at once.
C28_Thm ==
    /\ [](\A t \in Threads :
             /\ sinvocations[t] + swaits[t] <= max_retries
             /\ sfails[t] + swaits[t] <= iter[t] + (IF spc[t] = "wait" THEN 1 ELSE 0)
             /\ (max_retries = 0 /\ spc[t] # "idle") =>
                    (spc[t] = "raised" /\ sinvocations[t] = 0))
    /\ [][\A t \in Threads :
             /\ swaits'[t] # swaits[t] =>
                    /\ swaits'[t] = swaits[t] + 1
                    /\ sync_semaphore = 0 /\ sync_semaphore' = 0
                    /\ sinvocations' = sinvocations
                    /\ timer' = timer /\ detached' = detached
                    /\ spc'[t] = "wait" /\ sleft'[t] = sync_period
             /\ (spc[t] = "wait" /\ spc'[t] # "wait") =>
                    /\ sleft[t] = 0
                    /\ iter'[t] = iter[t] + 1]_vars

\* a call found no permit once, then got one and returned: both iterations
\* of its budget are used
C28_Witness ==
    \E t \in Threads :
        /\ max_retries = 2
        /\ swaits[t] = 1
        /\ sinvocations[t] = 1
        /\ spc[t] = "returned"

\* C31: with rate >= 1 the limiter never wedges: whenever no execute call
\* is running and no timer is pending the semaphore's value is at least 1,
\* so that a later execute call gets a permit.
C31_Thm == (sync_rate >= 1 /\ Quiescent) => sync_semaphore >= 1

\* both threads have returned and every timer is done: one of the two
\* permits is lost (its timer was cancelled), the other is back
C31_Witness ==
    /\ sync_rate = 2
    /\ Quiescent
    /\ \A t \in Threads : spc[t] = "returned"
    /\ sync_semaphore = 1

\* -------------------------------------------- claims on ReaderWriterLock
\* readers that returned from reader_acquire and have not yet given up
\* their place in reader_release
ActiveReaders == {u \in Users : upc[u] \in {"reading", "reader_release", "rr_dec"}}

ActiveWriters == {u \in Users : upc[u] = "writing"}

\* C6: readers and a writer are never active together, at most one writer is
\* active, and while a reader is active the write lock is held, so that a
\* writer_acquire issued meanwhile cannot return before the readers are out.
C6_Thm ==
    /\ ~(ActiveReaders # {} /\ ActiveWriters # {})
    /\ Cardinality(ActiveWriters) <= 1
    /\ ActiveReaders # {} => write_lock # 0
    /\ ActiveWriters # {} => write_lock # 0

\* a writer waits in writer_acquire while two readers are in their sections
C6_Witness ==
    /\ \E u \in Users : upc[u] = "writer_acquire"
    /\ Cardinality({u \in Users : upc[u] = "reading"}) >= 2

\* threads inside reader_acquire
AcquiringRead == {u \in Users : upc[u] \in {"reader_acquire", "ra_inc", "ra_first"}}

\* C15 (as claimed): under fair scheduling, with sections that all end, a
\* thread blocked in writer_acquire eventually acquires while readers keep
\* arriving, and a thread in reader_acquire eventually acquires while writers
\* keep arriving.
C15_Claim ==
    \A u \in Users :
        /\ (upc[u] = "writer_acquire") ~> (upc[u] = "writing")
        /\ (u \in AcquiringRead) ~> (upc[u] = "reading")

\* C19 (as claimed): in every reachable state the write lock is held if and
\* only if reader_count > 0 or a writer holds it.
C19_Claim == (write_lock # 0) <=> (reader_count > 0 \/ ActiveWriters # {})

\* C19 (amended): the equivalence holds in every state in which no thread is
\* inside a `with self._read_lock` block; inside the block reader_count is
\* updated one step before the write lock follows.
C19_Thm ==
    read_lock = 0 =>
        ((write_lock # 0) <=> (reader_count > 0 \/ ActiveWriters # {}))

\* two readers are counted, nobody is inside the internal lock, the write
\* lock is held on their behalf and a writer waits for it
C19_Witness ==
    /\ read_lock = 0
    /\ reader_count = 2
    /\ write_lock # 0
    /\ ActiveWriters = {}
    /\ \E u \in Users : upc[u] = "writer_acquire"

\* C20: readers share the read section: a reader that has counted itself
\* while another reader is in its section can return at once (it does not
\* touch the write lock), and the thread that is inside the internal lock
\* meanwhile is never blocked, so that a reader_acquire waits for no reader
\* to release.
C20_Thm ==
    (\E v \in Users : upc[v] = "reading") =>
        /\ \A u \in Users :
               upc[u] = "ra_first" => ENABLED (ReaderEnter(u) /\ UNCHANGED otherThanRW)
        /\ \A h \in Users :
               read_lock = h =>
                   ENABLED ((\/ ReaderIncrement(h) \/ ReaderEnter(h)
                             \/ ReaderDecrement(h) \/ ReaderLeave(h))
                            /\ UNCHANGED otherThanRW)

\* every thread is in its read section at the same time
C20_Witness ==
    /\ \A u \in Users : upc[u] = "reading"
    /\ reader_count = NumUsers
    /\ read_lock = 0

\* readers that are counted in reader_count while nobody is inside the
\* internal lock
CountedReaders == {u \in Users : upc[u] \in {"reading", "reader_release"}}

LockIdle ==
    /\ reader_count = 0 /\ write_lock = 0
    /\ CountedReaders = {} /\ ActiveWriters = {}

ReadersActive ==
    /\ reader_count > 0 /\ write_lock # 0
    /\ reader_count = Cardinality(CountedReaders)
    /\ ActiveWriters = {}

WriterActive ==
    /\ reader_count = 0 /\ write_lock # 0
    /\ CountedReaders = {}
    /\ ActiveWriters = {write_lock}

Progress ==
    \E u \in Users :
        \/ LockRead(u) \/ ReaderIncrement(u) \/ ReaderEnter(u) \/ ReaderDone(u)
        \/ ReaderDecrement(u) \/ ReaderLeave(u)
        \/ WriterAcquire(u) \/ WriterRelease(u)

\* C32: under bracketed, non-nested use there is no deadlock: whenever some
\* thread is inside the lock's methods or sections, one of them can take a
\* step; a first reader that waits for the write lock while it holds the
\* internal lock waits for a writer, whose release is enabled.
C32_Thm ==
    /\ (\E u \in Users : upc[u] # "idle") =>
           ENABLED (Progress /\ UNCHANGED otherThanRW)
    /\ \A u \in Users :
           (upc[u] = "ra_first" /\ FirstIn(reader_count) /\ write_lock # 0) =>
               /\ upc[write_lock] = "writing"
               /\ ENABLED (WriterRelease(write_lock) /\ UNCHANGED otherThanRW)

\* a writer is in its section, the first reader waits for the write lock
\* inside the internal lock, and a third thread waits for the internal lock
C32_Witness ==
    \E u \in Users, v \in Users, w \in Users :
        /\ upc[w] = "writing"
        /\ upc[u] = "ra_first" /\ read_lock = u /\ reader_count = 1
        /\ upc[v] = "reader_acquire"

\* C33: while a writer is active no reader is past reader_acquire or inside
\* reader_release, reader_count is at most 1 and counts exactly the reader
\* that holds the internal lock and waits for the write lock; that reader
\* cannot return, and no other reader can get the internal lock then.
C33_Thm ==
    ActiveWriters # {} =>
        /\ \A u \in Users :
               upc[u] \notin {"reading", "reader_release", "rr_dec", "rr_last"}
        /\ reader_count <= 1
        /\ reader_count = Cardinality({u \in Users : upc[u] = "ra_first"})
        /\ \A u \in Users :
               upc[u] = "ra_first" =>
                   /\ read_lock = u
                   /\ ~ENABLED (ReaderEnter(u) /\ UNCHANGED otherThanRW)
                   /\ \A v \in Users \ {u} :
                          upc[v] = "reader_acquire" =>
                              ~ENABLED (LockRead(v) /\ UNCHANGED otherThanRW)

\* a writer is active, one reader has counted itself and waits for the write
\* lock, and a second writer waits too
C33_Witness ==
    /\ ActiveWriters # {}
    /\ reader_count = 1
    /\ \E u \in Users : upc[u] = "ra_first" /\ read_lock = u
    /\ \E v \in Users : upc[v] = "writer_acquire"

\* C21 (as claimed): a release without a matching acquire leaves reader_count
\* (never negative) and the write lock as they are, so that bracketed readers
\* and writers stay mutually exclusive.
C21_Claim ==
    /\ reader_count >= 0
    /\ ~(\E u \in Users, v \in Users : upc[u] = "reading" /\ upc[v] = "writing")
    /\ Cardinality(ActiveWriters) <= 1

\* ------------------------------------------------- claims on load(api_key)
Building(k) == {c \in Callers : ckey[c] = k /\ cpc[c] \in {"ctor", "store"}}

Served(k) == {c \in Callers : ckey[c] = k /\ cpc[c] = "done" /\ cval[c] # NoValue}

Unexpired(k) == cache[k] # NoEntry /\ cache[k].age < CacheTtl

\* C22: a call for a key with an unexpired entry returns the stored value
\* and constructs nothing; a call for a key with no entry or an expired one
\* goes on to the constructor, which builds a new value that is stored with
\* age 0 and returned.
C22_Thm ==
    [][\A c \in Callers :
          LET k == ckey[c] IN
          /\ (cpc[c] = "lookup" /\ cpc'[c] # "lookup") =>
                 IF Unexpired(k)
                 THEN /\ cpc'[c] = "done"
                      /\ cval'[c] = cache[k].val
                      /\ built' = built /\ cache' = cache
                 ELSE /\ cpc'[c] = "ctor"
                      /\ built' = built /\ cache' = cache
          /\ (cpc[c] = "ctor" /\ cpc'[c] # "ctor") =>
                 /\ cpc'[c] = "store"
                 /\ built' = built + 1
                 /\ cval'[c] = built'
          /\ (cpc[c] = "store" /\ cpc'[c] # "store") =>
                 /\ cpc'[c] = "done"
                 /\ cache'[k] = [kind |-> "entry", val |-> cval[c], age |-> 0]
                 /\ cval'[c] = cval[c]
                 /\ built' = built]_vars

\* two calls for k1 more than ttl apart: the constructor ran twice, the
\* second caller holds the second retriever, which is the one now cached
C22_Witness ==
    /\ \A c \in Callers : ckey[c] = "k1"
    /\ built = 2
    /\ ctorCalls["k1"] = 1
    /\ Unexpired("k1") /\ cache["k1"].val = 2
    /\ \E c \in Callers, d \in Callers :
           /\ c # d
           /\ cpc[c] = "done" /\ cval[c] = NoValue
           /\ cpc[d] = "done" /\ cval[d] = 2

InBody == {t \in InitCallers : ipc[t] \in {"ping", "create_index"}}

\* C34 (as claimed): whenever no initialize call is inside the body, either
\* client, db, the five collections and rate_limiter are all set, or client
\* is None, so that the next call initializes again.
C34_Claim ==
    (InBody = {} /\ init_lock = 0) =>
        \/ client = 0
        \/ (client # 0 /\ db # 0 /\ collections = NumCollections /\ rate_limiter # 0)

\* C35: the body of initialize is run by one coroutine at a time, the one
\* holding init_lock; once a call has completed the initialization, client
\* and rate_limiter never change again, and not more than one client and one
\* RateLimiter are ever constructed.
C35_Thm ==
    /\ [](/\ Cardinality(InBody) <= 1
          /\ \A t \in InitCallers : t \in InBody <=> init_lock = t
          /\ clientsCreated <= 1
          /\ limitersCreated <= 1
          /\ rate_limiter # 0 =>
                 (limitersCreated = 1 /\ client # 0 /\ collections = NumCollections))
    /\ [][rate_limiter # 0 =>
             /\ rate_limiter' = rate_limiter
             /\ client' = client /\ db' = db /\ collections' = collections
             /\ clientsCreated' = clientsCreated
             /\ limitersCreated' = limitersCreated]_vars

\* one call has completed the initialization; a call that waited for the
\* lock meanwhile and a later call have both returned
C35_Witness ==
    /\ rate_limiter = 1
    /\ clientsCreated = 1
    /\ \A t \in InitCallers : ipc[t] = "returned"
====
